---------------------------- MODULE Spec2Model ----------------------------
(***************************************************************************)
(* Model of weppy/tools/auth/models.py: the AuthModel definition pipeline  *)
(* (_define_), the form field visibility resolution it performs on the     *)
(* auth settings, the registration_key account states of AuthUserBasic and *)
(* the timestamps of TimestampedModel.                                     *)
(*                                                                         *)
(* Python values are modelled as follows.                                  *)
(*   - a list of field names is a sequence of strings;                     *)
(*   - a value of auth.settings[setting] is a tagged record:               *)
(*       [kind |-> "none"]                          None / unset           *)
(*       [kind |-> "list", items |-> seq]           a flat collection      *)
(*       [kind |-> "dict", readable |-> seq, writable |-> seq]             *)
(*     and, for the values of no accepted shape,                           *)
(*       [kind |-> "number"]                        a non-zero number      *)
(*       [kind |-> "string", text |-> str]          a non-empty string     *)
(*       [kind |-> "otherdict", fields |-> seq]     {'fields': [..]}, a    *)
(*                                                  dict with neither key  *)
(*   - a value of form_registration_rw / form_profile_rw is a function     *)
(*     from field names to tagged records:                                 *)
(*       [kind |-> "bool", v |-> b]                 a boolean              *)
(*       [kind |-> "pair", r |-> b, w |-> b]        a (readable, writable) *)
(*                                                  tuple                  *)
(*       [kind |-> "triple"]                        a tuple of 3 elements  *)
(*       [kind |-> "scalar", truthy |-> b]          another object that is *)
(*                                                  no tuple or list, such *)
(*                                                  as 'no' or None        *)
(***************************************************************************)
EXTENDS Integers, Sequences, FiniteSets, TLC

VARIABLES
    readable,       \* table[field].readable, per field of the table
    writable,       \* table[field].writable, per field of the table
    settings,       \* auth.settings[setting], per form setting
    given,          \* history: auth.settings as it was before _define_
    form_rw,        \* the form_registration_rw / form_profile_rw attributes
    pc,             \* position of _define_ in its list of steps
    trace,          \* history: the steps _define_ has executed, in order
    pending,        \* settings the loop of __define_authform_utils has left
    runs,           \* history: what each resolver pass wrote, per setting
    err,            \* the exception _define_ raised, "" for none
    requires_verification,  \* auth.settings.registration_requires_verification
    users,          \* the auth_users table: the row of each id, or NoRow
    log,            \* history: per id, the operations applied to its row
    wall,           \* the wall clock, datetime.utcnow()
    requests,       \* per thread: request.now of its current request
    uuids           \* the number of tokens uuid() has returned

defvars == <<readable, writable, settings, given, form_rw, pc, trace,
             pending, runs, err>>

accvars == <<requires_verification, users, log, wall, requests, uuids>>

vars == <<defvars, accvars>>

----------------------------------------------------------------------------
(* Bounds *)

\* longest list held by a given auth setting
MaxLen == 2

\* most invocations of the resolver on one setting of a model
MaxRuns == 2

----------------------------------------------------------------------------
(* The table of the model class *)

\* The fields of AuthUser, plus "bio", a field added by a subclass.
TableFields ==
    << "created_at", "updated_at", "email", "password", "registration_key",
       "reset_password_key", "registration_id", "first_name", "last_name",
       "bio" >>

\* Field(..., rw=False) for the system managed fields, rw defaults to True.
DeclaredRW(field) ==
    field \notin { "created_at", "updated_at", "registration_key",
                   "reset_password_key", "registration_id" }

\* the keys of settings_map
Settings == { "register_fields", "profile_fields" }

\* settings_map: the class attribute holding the overrides of a setting
settings_map(setting) ==
    IF setting = "register_fields" THEN "form_registration_rw"
                                   ELSE "form_profile_rw"

\* alwaysvisible in __hide_all
alwaysvisible == << "first_name", "last_name", "password", "email" >>

----------------------------------------------------------------------------
(* Python list and truth-value primitives *)

Range(s) == { s[i] : i \in DOMAIN s }

\* x in list
Contains(s, x) == x \in Range(s)

\* list.remove(x): deletes the FIRST occurrence of x only
ListRemove(s, x) ==
    LET i == CHOOSE k \in DOMAIN s :
                 s[k] = x /\ \A j \in 1..(k - 1) : s[j] # x
    IN  SubSeq(s, 1, i - 1) \o SubSeq(s, i + 1, Len(s))

\* list("bio"): the characters of a string
StringChars(text) ==
    CASE text = "bio" -> << "b", "i", "o" >>
      [] OTHER -> << >>

\* every name a list of the model can hold, in a fixed order
NameOrder == TableFields \o StringChars("bio")

\* mutant: the list kept as it is, repeats included
ListKept(s) == s

\* list(set(s)): the distinct elements of s.  The order Python gives them is
\* unspecified; the model fixes it to NameOrder.
ListOfSet(s) == SelectSeq(NameOrder, LAMBDA n : n \in Range(s))

\* the truth value of a settings value: None, [] and {} are false
Truthy(value) ==
    CASE value.kind = "none" -> FALSE
      [] value.kind = "list" -> value.items # << >>
      [] OTHER -> TRUE


----------------------------------------------------------------------------
(* __hide_all and __base_visibility *)

\* mutant: __hide_all without its alwaysvisible test
HideAllHidesEvery(field) == TRUE

\* __hide_all clears both flags of every field this holds for
HideAllHides(field) == ~Contains(alwaysvisible, field)

\* mutant: __base_visibility excluding nothing for the profile form
ExcludeNothing(form_type) == << >>

\* the exclude list of __base_visibility
Exclude(form_type) ==
    IF form_type = "profile_fields" THEN << "password", "email" >> ELSE << >>

\* __base_visibility: the names of the writable fields of the table that
\* are not excluded for the form, in table order (w: the writable flags)
BaseVisibility(form_type, w) ==
    SelectSeq(TableFields,
              LAMBDA f : w[f] /\ ~Contains(Exclude(form_type), f))

----------------------------------------------------------------------------
(* __define_authform_utils, one pass of its loop over settings_map *)

\* The state of one pass: rwdata, the exception raised ("" for none), and
\* whether rwdata is the very dict held by auth.settings (it then sees every
\* in-place change even if the pass raises later).
Pass(rwdata, error, aliased) ==
    [rwdata |-> rwdata, error |-> error, aliased |-> aliased]

\* rwdata = auth.settings[setting] or __base_visibility(setting), then the
\* conversion of a non-dict into {'writable': list(..), 'readable': list(..)}
InitialRwdata(value, base) ==
    LET rwdata == IF Truthy(value) THEN value
                  ELSE [kind |-> "list", items |-> base]
    IN  CASE rwdata.kind = "dict" -> Pass(rwdata, "", TRUE)
          [] rwdata.kind = "otherdict" -> Pass(rwdata, "", TRUE)
          [] rwdata.kind = "list" ->
                Pass([kind |-> "dict", readable |-> rwdata.items,
                      writable |-> rwdata.items], "", FALSE)
          [] rwdata.kind = "string" -> \* list('bio') is ['b', 'i', 'o']
                Pass([kind |-> "dict", readable |-> StringChars(rwdata.text),
                      writable |-> StringChars(rwdata.text)], "", FALSE)
          [] OTHER -> \* list(5): 'int' object is not iterable
                Pass(rwdata, "TypeError", FALSE)

\* readable, writable = value  /  readable = writable = value
Unpack(value) ==
    CASE value.kind = "pair" -> [error |-> "", r |-> value.r, w |-> value.w]
      [] value.kind = "bool" -> [error |-> "", r |-> value.v, w |-> value.v]
      [] value.kind = "scalar" -> \* no tuple or list: used for its truth
            [error |-> "", r |-> value.truthy, w |-> value.truthy]
      [] OTHER -> \* a tuple or list of another length does not unpack
                  [error |-> "ValueError", r |-> FALSE, w |-> FALSE]

\* mutant: the else branches dropped, a falsy flag removes nothing
AppendOnly(lst, field, flag) ==
    IF flag THEN Append(lst, field) ELSE lst

\* mutant: the else branch removing the last element, lst.pop(), instead
\* of the field
AppendOrPop(lst, field, flag) ==
    IF flag THEN Append(lst, field)
    ELSE IF Contains(lst, field) THEN SubSeq(lst, 1, Len(lst) - 1) ELSE lst

\* if flag: lst.append(field) / else: if field in lst: lst.remove(field)
AppendOrRemove(lst, field, flag) ==
    IF flag THEN Append(lst, field)
    ELSE IF Contains(lst, field) THEN ListRemove(lst, field) ELSE lst

\* the body of the loop over the items of the override attribute
ApplyOverride(pass, field, value) ==
    LET u == Unpack(value)
    IN  IF pass.error # "" THEN pass
        ELSE IF u.error # "" THEN Pass(pass.rwdata, u.error, pass.aliased)
        ELSE IF pass.rwdata.kind = "otherdict" \* rwdata['readable']
        THEN Pass(pass.rwdata, "KeyError", pass.aliased)
        ELSE Pass([pass.rwdata EXCEPT
                     !.readable = AppendOrRemove(@, field, u.r),
                     !.writable = AppendOrRemove(@, field, u.w)],
                  "", pass.aliased)

\* the loop over getattr(self, attr).items(), visiting the keys in `order`
RECURSIVE ApplyOverrides(_, _, _)
ApplyOverrides(pass, overrides, order) ==
    IF order = << >> THEN pass
    ELSE ApplyOverrides(ApplyOverride(pass, Head(order), overrides[Head(order)]),
                        overrides, Tail(order))

\* for key in iterkeys(rwdata): rwdata[key] = list(set(rwdata[key]))
Deduplicate(pass) ==
    IF pass.error # "" THEN pass
    ELSE IF pass.rwdata.kind = "otherdict"
    THEN Pass([pass.rwdata EXCEPT !.fields = ListOfSet(@)], "", pass.aliased)
    ELSE Pass([pass.rwdata EXCEPT !.readable = ListOfSet(@),
                                  !.writable = ListOfSet(@)],
              "", pass.aliased)

\* one pass of the loop of __define_authform_utils for `setting`
Resolve(setting, value, overrides, order, w) ==
    Deduplicate(
        ApplyOverrides(InitialRwdata(value, BaseVisibility(setting, w)),
                       overrides, order))

\* the orders in which the items of a dict with these keys can be visited
Orders(keys) ==
    { o \in [1..Cardinality(keys) -> keys] :
          \A i, j \in DOMAIN o : i # j => o[i] # o[j] }


----------------------------------------------------------------------------
(* _define_ *)

\* mutant: __hide_all called after __define_authform_utils
DefineStepsHideLate ==
    << "define_validation", "define_defaults", "define_updates",
       "define_representation", "define_computations", "define_callbacks",
       "define_scopes", "define_indexes", "define_authform_utils",
       "hide_all", "setup" >>

\* the calls of _define_, in program order.  Line 49 only looks up
\* define_form_utils and never calls it, so it is no step.
DefineSteps ==
    << "define_validation", "define_defaults", "define_updates",
       "define_representation", "define_computations", "define_callbacks",
       "define_scopes", "define_indexes", "hide_all",
       "define_authform_utils", "setup" >>

\* the steps delegated to Model through __super_method
SuperSteps ==
    { "define_validation", "define_defaults", "define_updates",
      "define_representation", "define_computations", "define_callbacks",
      "define_scopes", "define_indexes" }

Running == pc \in DOMAIN DefineSteps /\ err = ""

\* _define_ returned normally
Defined == pc = Len(DefineSteps) + 1 /\ err = ""

\* self.__super_method(name)(): the structural setup of Model.  It creates
\* no field and changes no readable/writable flag or auth setting.
SuperMethod ==
    /\ Running
    /\ DefineSteps[pc] \in SuperSteps
    /\ trace' = Append(trace, DefineSteps[pc])
    /\ pc' = pc + 1
    /\ UNCHANGED <<readable, writable, settings, given, form_rw, pending,
                   runs, err>>
    /\ UNCHANGED accvars

\* self.__hide_all()
HideAll ==
    /\ Running
    /\ DefineSteps[pc] = "hide_all"
    /\ readable' = [f \in DOMAIN readable |->
                       IF HideAllHides(f) THEN FALSE ELSE readable[f]]
    /\ writable' = [f \in DOMAIN writable |->
                       IF HideAllHides(f) THEN FALSE ELSE writable[f]]
    /\ trace' = Append(trace, "hide_all")
    /\ pc' = pc + 1
    /\ UNCHANGED <<settings, given, form_rw, pending, runs, err>>
    /\ UNCHANGED accvars

\* mutant: one shared value, the result stored under both settings
AfterPassBoth(setting, pass) ==
    IF pass.error = "" \/ pass.aliased
    THEN [s \in Settings |-> pass.rwdata]
    ELSE settings

\* What one pass of the loop of __define_authform_utils does to
\* auth.settings[setting]: the result is stored when the pass completes; when
\* it raises, the setting keeps its value, changed in place so far when
\* rwdata is the dict of the setting itself.
AfterPass(setting, pass) ==
    IF pass.error = "" \/ pass.aliased
    THEN [settings EXCEPT ![setting] = pass.rwdata]
    ELSE settings

\* self.__define_authform_utils(): one pass of its loop, for a setting of
\* settings_map not visited yet.  The loop follows settings_map.items() and
\* the inner one the items of the override dict, whose orders are the
\* interpreter's.
DefineAuthformUtils(setting) ==
    /\ Running
    /\ DefineSteps[pc] = "define_authform_utils"
    /\ setting \in pending
    /\ \E order \in Orders(DOMAIN form_rw[settings_map(setting)]) :
         LET pass == Resolve(setting, settings[setting],
                             form_rw[settings_map(setting)], order, writable)
         IN  /\ settings' = AfterPass(setting, pass)
             /\ err' = pass.error
             /\ runs' = IF pass.error = ""
                        THEN [runs EXCEPT ![setting] = Append(@, pass.rwdata)]
                        ELSE runs
             /\ pc' = IF pass.error = "" /\ pending = {setting}
                      THEN pc + 1 ELSE pc
    /\ trace' = Append(trace, setting)
    /\ pending' = pending \ {setting}
    /\ UNCHANGED <<readable, writable, given, form_rw>>
    /\ UNCHANGED accvars

\* __define_authform_utils invoked again on a defined model: one pass of
\* its loop, reading the value the earlier pass left in auth.settings
Redefine(setting) ==
    /\ Defined
    /\ Len(runs[setting]) < MaxRuns
    /\ \E order \in Orders(DOMAIN form_rw[settings_map(setting)]) :
         LET pass == Resolve(setting, settings[setting],
                             form_rw[settings_map(setting)], order, writable)
         IN  /\ settings' = AfterPass(setting, pass)
             /\ err' = pass.error
             /\ runs' = IF pass.error = ""
                        THEN [runs EXCEPT ![setting] = Append(@, pass.rwdata)]
                        ELSE runs
    /\ UNCHANGED <<readable, writable, given, form_rw, pc, trace, pending>>
    /\ UNCHANGED accvars

\* self.setup(): the extension point, empty in AuthModel
Setup ==
    /\ Running
    /\ DefineSteps[pc] = "setup"
    /\ trace' = Append(trace, "setup")
    /\ pc' = pc + 1
    /\ UNCHANGED <<readable, writable, settings, given, form_rw, pending,
                   runs, err>>
    /\ UNCHANGED accvars

----------------------------------------------------------------------------
(* Inputs *)

None == [kind |-> "none"]

\* the lists of at most n names
Lists(names, n) == UNION { [1..k -> names] : k \in 0..n }

\* the values auth.settings holds for a form setting: unset, a flat
\* collection of names, or a {readable, writable} structure
SettingValues(names, n) ==
    {None}
    \cup { [kind |-> "list", items |-> l] : l \in Lists(names, n) }
    \cup { [kind |-> "dict", readable |-> r, writable |-> w] :
              r \in Lists(names, n), w \in Lists(names, n) }

BoolValues == { [kind |-> "bool", v |-> b] : b \in BOOLEAN }

PairValues == { [kind |-> "pair", r |-> b, w |-> ~b] : b \in BOOLEAN }

\* the override dicts with keys among names
OverrideMaps(names, values) == UNION { [d -> values] : d \in SUBSET names }

NoOverrides == [d \in {} |-> None]

Attrs == { settings_map(s) : s \in Settings }

\* the table as declared, before _define_
DeclaredFlags == [f \in Range(TableFields) |-> DeclaredRW(f)]

\* the override dicts the definition is run with
DefineOverrides ==
    OverrideMaps({"email", "bio"}, BoolValues)
    \cup OverrideMaps({"bio"}, PairValues)

----------------------------------------------------------------------------
(* _now and the request context *)

\* the last tick of the wall clock
MaxClock == 1

\* the threads serving traffic; `current` is local to each
Threads == { "t1", "t2" }

\* hasattr(current, 'request') is false for the thread
NoRequest == -1

\* mutant: one request value shared by all threads, that of the request
\* begun last
NowShared(t, w) ==
    IF \E u \in Threads : requests[u] # NoRequest
    THEN CHOOSE v \in { requests[u] : u \in Threads } :
             \A u \in Threads : requests[u] <= v
    ELSE w

\* _now() called by thread t when datetime.utcnow() reads w
NowAt(t, w) == IF requests[t] # NoRequest THEN requests[t] ELSE w

\* _now() called by thread t
Now(t) == NowAt(t, wall)

\* the wall clock advances
Tick ==
    /\ Defined
    /\ wall < MaxClock
    /\ wall' = wall + 1
    /\ UNCHANGED <<requires_verification, users, log, requests, uuids>>
    /\ UNCHANGED defvars

\* a thread starts serving a request: request.now is computed once, then
BeginRequest(t) ==
    /\ Defined
    /\ requests[t] = NoRequest
    /\ requests' = [requests EXCEPT ![t] = wall]
    /\ UNCHANGED <<requires_verification, users, log, wall, uuids>>
    /\ UNCHANGED defvars

\* the request of a thread ends
EndRequest(t) ==
    /\ requests[t] # NoRequest
    /\ requests' = [requests EXCEPT ![t] = NoRequest]
    /\ UNCHANGED <<requires_verification, users, log, wall, uuids>>
    /\ UNCHANGED defvars

----------------------------------------------------------------------------
(* AuthUserBasic rows: insert with the before_insert hook, and updates *)

\* the ids of the rows of auth_users: two, to tell a row from another
Ids == { 1, 2 }

NoRow == [registration_key |-> "<no row>", created_at |-> -1, updated_at |-> -1]

\* the n-th value of uuid(): non-empty and unlike any other
Uuid(n) == "uuid-" \o ToString(n)

NoFields == [f \in {} |-> ""]

\* the values passed to insert: no registration_key, or one given
InsertFields ==
    { NoFields } \cup { [registration_key |-> k] : k \in { "", "invite" } }

\* not fields.get('registration_key'): the key is missing, or is ''
NoKeyGiven(fields) ==
    "registration_key" \notin DOMAIN fields \/ fields["registration_key"] = ""

\* mutant: the hook ignoring a token that was supplied
set_registration_key_always(fields, required, token) ==
    IF required
    THEN [f \in DOMAIN fields \cup {"registration_key"} |-> token]
    ELSE fields

\* the before_insert hook set_registration_key; token is what uuid() gives
set_registration_key(fields, required, token) ==
    IF required /\ NoKeyGiven(fields)
    THEN [f \in DOMAIN fields \cup {"registration_key"} |-> token]
    ELSE fields

\* the row an insert stores: registration_key as in fields, default '';
\* created_at and updated_at take their default, each its own call of _now()
InsertedRow(fields, created, updated) ==
    [ registration_key |-> IF "registration_key" \in DOMAIN fields
                           THEN fields["registration_key"] ELSE "",
      created_at |-> created,
      updated_at |-> updated ]

\* mutant: created_at declared with update=_now as well
UpdatedRowRestamped(row, changes, now) ==
    [ registration_key |-> IF "registration_key" \in DOMAIN changes
                           THEN changes["registration_key"]
                           ELSE row.registration_key,
      created_at |-> now,
      updated_at |-> now ]

\* row.update_record(**changes): the fields given change, updated_at takes
\* its update value _now(), created_at has none and stays
UpdatedRow(row, changes, now) ==
    [ registration_key |-> IF "registration_key" \in DOMAIN changes
                           THEN changes["registration_key"]
                           ELSE row.registration_key,
      created_at |-> row.created_at,
      updated_at |-> now ]

\* the log of a row: the last operation applied to it, the thread that ran
\* it, the fields it was passed and what _now() returned for updated_at
Entry(op, t, fields, now) ==
    [op |-> op, thread |-> t, fields |-> fields, now |-> now]

NoEntry == Entry("none", "none", NoFields, -1)

\* db.auth_users.insert(**fields) by thread t, creating row id.  The
\* defaults of created_at and updated_at are two calls of _now(), in the
\* order the fields are declared; the wall clock may advance in between.
Insert(t, id, fields) ==
    /\ Defined
    /\ users[id] = NoRow
    /\ \A j \in Ids : j < id => users[j] # NoRow
    /\ \E later \in { w \in { wall, wall + 1 } : w <= MaxClock } :
         /\ wall' = later
         /\ LET hooked == set_registration_key(fields, requires_verification,
                                               Uuid(uuids + 1))
            IN  /\ users' = [users EXCEPT ![id] =
                                InsertedRow(hooked, Now(t), NowAt(t, later))]
                /\ uuids' = IF hooked = fields THEN uuids ELSE uuids + 1
         /\ log' = [log EXCEPT ![id] =
                        Entry("insert", t, fields, NowAt(t, later))]
    /\ UNCHANGED <<requires_verification, requests>>
    /\ UNCHANGED defvars

\* mutant: the update written to every row of the table
UpdateAll(op, t, id, changes) ==
    /\ Defined
    /\ users[id] # NoRow
    /\ users' = [j \in Ids |-> IF users[j] # NoRow
                               THEN UpdatedRow(users[j], changes, Now(t))
                               ELSE users[j]]
    /\ log' = [log EXCEPT ![id] = Entry(op, t, changes, Now(t))]
    /\ UNCHANGED <<requires_verification, wall, requests, uuids>>
    /\ UNCHANGED defvars

\* an update of row id by thread t through row.update_record(**changes)
Update(op, t, id, changes) ==
    /\ Defined
    /\ users[id] # NoRow
    /\ users' = [users EXCEPT ![id] = UpdatedRow(@, changes, Now(t))]
    /\ log' = [log EXCEPT ![id] = Entry(op, t, changes, Now(t))]
    /\ UNCHANGED <<requires_verification, wall, requests, uuids>>
    /\ UNCHANGED defvars

\* mutant: _set_allowed writing the key of _set_disabled
SetAllowedChangesWrong == [registration_key |-> "disabled"]

\* mutant: _set_allowed writing a key that is none of the three
SetAllowedChangesToken == [registration_key |-> "allowed"]

\* the keyword arguments of the update_record of each rowmethod
SetDisabledChanges == [registration_key |-> "disabled"]

SetBlockedChanges == [registration_key |-> "blocked"]

SetAllowedChanges == [registration_key |-> ""]

\* row.disable(): _set_disabled
SetDisabled(t, id) == Update("disable", t, id, SetDisabledChanges)

\* row.block(): _set_blocked
SetBlocked(t, id) == Update("block", t, id, SetBlockedChanges)

\* row.allow(): _set_allowed
SetAllowed(t, id) == Update("allow", t, id, SetAllowedChanges)

\* row.update_record(...) of fields other than registration_key
UpdateOther(t, id) == Update("update", t, id, NoFields)

\* no row, no request, the clock at its start
NoTraffic ==
    /\ users = [id \in Ids |-> NoRow]
    /\ log = [id \in Ids |-> NoEntry]
    /\ wall = 0
    /\ requests = [t \in Threads |-> NoRequest]
    /\ uuids = 0

----------------------------------------------------------------------------
(* The definition of the model class: _define_ from its first step *)

Init ==
    /\ readable = DeclaredFlags
    /\ writable = DeclaredFlags
    /\ settings \in [Settings -> SettingValues({"bio"}, MaxLen)]
    /\ given = settings
    /\ form_rw \in [Attrs -> DefineOverrides]
    /\ pc = 1
    /\ trace = << >>
    /\ pending = Settings
    /\ runs = [s \in Settings |-> << >>]
    /\ err = ""
    /\ requires_verification = FALSE   \* read by the insert hook only
    /\ NoTraffic

Next ==
    \/ SuperMethod
    \/ HideAll
    \/ \E setting \in Settings : DefineAuthformUtils(setting)
    \/ Setup

Spec == Init /\ [][Next]_vars


----------------------------------------------------------------------------
(* The resolver alone: _define_ as it enters __define_authform_utils, one  *)
(* setting drawn from the wide input sets, and the resolver invoked again  *)
(* once the model is defined                                               *)

\* the flags __hide_all leaves
HiddenFlags ==
    [f \in Range(TableFields) |-> DeclaredRW(f) /\ ~HideAllHides(f)]

AuthformPc == CHOOSE i \in DOMAIN DefineSteps :
                  DefineSteps[i] = "define_authform_utils"

\* auth.settings values of no accepted shape: 5, 'bio', {'fields': ['bio']}
MalformedSettings ==
    { [kind |-> "number"],
      [kind |-> "string", text |-> "bio"],
      [kind |-> "otherdict", fields |-> << "bio" >>] }

\* auth.settings values: the three accepted shapes, and the malformed ones
WideSettings ==
    SettingValues({"email", "bio"}, MaxLen) \cup MalformedSettings

\* override values of no supported shape: (1, 1, 1), and 'no'
UnsupportedValues ==
    { [kind |-> "triple"], [kind |-> "scalar", truthy |-> TRUE] }

\* override dicts: booleans, (readable, writable) pairs, unsupported values
WideOverrides ==
    OverrideMaps({"email", "bio"}, BoolValues \cup PairValues)
    \cup { [f \in DOMAIN ov \cup {"bio"} |->
               IF f = "bio" THEN u ELSE ov[f]] :
             ov \in OverrideMaps({"email"}, BoolValues \cup PairValues),
             u \in UnsupportedValues }

InitResolver ==
    /\ readable = HiddenFlags
    /\ writable = HiddenFlags
    /\ \E focus \in Settings :
         /\ settings \in [Settings -> WideSettings]
         /\ form_rw \in [Attrs -> WideOverrides]
         /\ \A s \in Settings \ {focus} :
               settings[s] = None /\ form_rw[settings_map(s)] = NoOverrides
    /\ given = settings
    /\ pc = AuthformPc
    /\ trace = SubSeq(DefineSteps, 1, AuthformPc - 1)
    /\ pending = Settings
    /\ runs = [s \in Settings |-> << >>]
    /\ err = ""
    /\ requires_verification = FALSE   \* read by the insert hook only
    /\ NoTraffic

NextResolver ==
    \/ \E setting \in Settings : DefineAuthformUtils(setting)
    \/ Setup
    \/ \E setting \in Settings : Redefine(setting)

SpecResolver == InitResolver /\ [][NextResolver]_vars


----------------------------------------------------------------------------
(* The record operations on a defined model: the definition has completed  *)
(* with the settings unset and no overrides before any row exists          *)

DefaultSettings ==
    [s \in Settings |->
        Resolve(s, None, NoOverrides, << >>, HiddenFlags).rwdata]

InitAccount ==
    /\ readable = HiddenFlags
    /\ writable = HiddenFlags
    /\ settings = DefaultSettings
    /\ given = [s \in Settings |-> None]
    /\ form_rw = [a \in Attrs |-> NoOverrides]
    /\ pc = Len(DefineSteps) + 1
    /\ trace = SubSeq(DefineSteps, 1, AuthformPc - 1)
                 \o << "register_fields", "profile_fields", "setup" >>
    /\ pending = {}
    /\ runs = [s \in Settings |-> << DefaultSettings[s] >>]
    /\ err = ""
    /\ requires_verification \in BOOLEAN
    /\ NoTraffic

NextAccount ==
    \/ Tick
    \/ \E t \in Threads : BeginRequest(t)
    \/ \E t \in Threads : EndRequest(t)
    \/ \E t \in Threads, id \in Ids, fields \in InsertFields : Insert(t, id, fields)
    \/ \E t \in Threads, id \in Ids : SetDisabled(t, id)
    \/ \E t \in Threads, id \in Ids : SetBlocked(t, id)
    \/ \E t \in Threads, id \in Ids : SetAllowed(t, id)
    \/ \E t \in Threads, id \in Ids : UpdateOther(t, id)

SpecAccount == InitAccount /\ [][NextAccount]_vars

----------------------------------------------------------------------------
(* Properties *)

NoDuplicates(s) == \A i, j \in DOMAIN s : i # j => s[i] # s[j]

\* the names before position i of the trace
Before(i) == { trace[j] : j \in 1..(i - 1) }

\* the override dict of a setting
OverridesOf(s) == form_rw[settings_map(s)]

\* the fields an override dict decides to show / to hide, per flag
ShownR(ov) == { f \in DOMAIN ov : Unpack(ov[f]).r }
ShownW(ov) == { f \in DOMAIN ov : Unpack(ov[f]).w }

\* the writable fields of the table
WritableFields == { f \in DOMAIN writable : writable[f] }

\* C1: once _define_ has completed, every field of the table named in the
\* always-visible list is readable and writable, whatever the settings and
\* the overrides are.
C1_AlwaysVisible ==
    Defined =>
        \A f \in Range(alwaysvisible) \cap Range(TableFields) :
            readable[f] /\ writable[f]

\* C1 witness: the model is defined, an override hides email from the
\* register form, and the email field itself is still readable and writable.
C1_Witness ==
    /\ Defined
    /\ "email" \in DOMAIN OverridesOf("register_fields")
    /\ ~Unpack(OverridesOf("register_fields")["email"]).w
    /\ ~Contains(settings["register_fields"].writable, "email")
    /\ readable["email"] /\ writable["email"]
    /\ ~readable["bio"]


\* the sets a pass of the resolver must produce from an unset or empty
\* setting: the writable fields of the table without those excluded for the
\* form, plus the fields its overrides show, minus those they hide
NotOnForm(s) ==
    IF s = "profile_fields" THEN { "password", "email" } ELSE {}
ExpectedR(s) ==
    ((WritableFields \ NotOnForm(s)) \cup ShownR(OverridesOf(s)))
        \ (DOMAIN OverridesOf(s) \ ShownR(OverridesOf(s)))
ExpectedW(s) ==
    ((WritableFields \ NotOnForm(s)) \cup ShownW(OverridesOf(s)))
        \ (DOMAIN OverridesOf(s) \ ShownW(OverridesOf(s)))

BioTrue == [f \in {"bio"} |-> [kind |-> "bool", v |-> TRUE]]

\* C2: a setting that was unset or empty resolves to exactly the writable
\* fields left by the hiding step (without password and email for the
\* profile form), plus the fields with a truthy override, minus those with
\* a falsy one; so a field outside the always-visible list appears only
\* through an override, and with the override {bio: True} on both forms the
\* register form writes first_name, last_name, email, password, bio and the
\* profile form first_name, last_name, bio.
C2_EmptySetting ==
    /\ \A s \in Settings :
          (~Truthy(given[s]) /\ Len(runs[s]) >= 1) =>
              /\ Range(runs[s][1].readable) = ExpectedR(s)
              /\ Range(runs[s][1].writable) = ExpectedW(s)
              /\ \A f \in Range(runs[s][1].writable) \ Range(alwaysvisible) :
                    f \in ShownW(OverridesOf(s))
              /\ \A f \in Range(runs[s][1].readable) \ Range(alwaysvisible) :
                    f \in ShownR(OverridesOf(s))
    /\ ( /\ Defined
         /\ \A s \in Settings : ~Truthy(given[s]) /\ OverridesOf(s) = BioTrue )
       => /\ Range(settings["register_fields"].writable) =
                { "first_name", "last_name", "email", "password", "bio" }
          /\ Range(settings["profile_fields"].writable) =
                { "first_name", "last_name", "bio" }

\* C2 witness: the scenario, both settings unset, {bio: True} on both forms,
\* the model defined.
C2_Witness ==
    /\ Defined
    /\ \A s \in Settings : given[s] = None /\ OverridesOf(s) = BioTrue
    /\ Contains(settings["profile_fields"].writable, "bio")

\* C3: with no profile_fields setting, and no override for them, password
\* and email are in neither list written to auth.settings['profile_fields'];
\* with no register_fields setting, and no override for them, they are in
\* both lists of auth.settings['register_fields'].
C3_ContextExclusion ==
    \A s \in Settings : \A f \in { "password", "email" } :
        (Defined /\ ~Truthy(given[s]) /\ f \notin DOMAIN OverridesOf(s)) =>
            IF s = "profile_fields"
            THEN /\ ~Contains(settings[s].readable, f)
                 /\ ~Contains(settings[s].writable, f)
            ELSE /\ Contains(settings[s].readable, f)
                 /\ Contains(settings[s].writable, f)

\* C3 witness: the model is defined from unset settings with no override on
\* email, which is a writable field listed for the register form and not for
\* the profile form.
C3_Witness ==
    /\ Defined
    /\ \A s \in Settings :
          given[s] = None /\ "email" \notin DOMAIN OverridesOf(s)
    /\ writable["email"] /\ writable["password"]
    /\ Contains(settings["register_fields"].writable, "email")
    /\ ~Contains(settings["profile_fields"].readable, "email")


\* the accepted shapes of a setting: unset or empty, a flat collection,
\* a {readable, writable} structure
Accepted(value) == value.kind \in { "none", "list", "dict" }

\* the {readable, writable} value a first pass starts from
Starting(s) ==
    InitialRwdata(given[s], BaseVisibility(s, writable)).rwdata

\* the first pass of the resolver on s completed
Resolved(s) == Len(runs[s]) >= 1

\* C4 (as claimed): after a pass of the resolver, for every setting, every
\* starting value and every override entry (field, value): field is in the
\* readable list iff the readable part of value is truthy, and in the
\* writable list iff its writable part is, independently; a field with no
\* override entry is in a list iff it was in the starting one.
C4_OverrideDecides ==
    \A s \in Settings : (Resolved(s) /\ Accepted(given[s])) =>
        /\ \A f \in DOMAIN OverridesOf(s) :
              /\ Contains(runs[s][1].readable, f) <=> (f \in ShownR(OverridesOf(s)))
              /\ Contains(runs[s][1].writable, f) <=> (f \in ShownW(OverridesOf(s)))
        /\ \A f \in Range(NameOrder) \ DOMAIN OverridesOf(s) :
              /\ Contains(runs[s][1].readable, f) <=> Contains(Starting(s).readable, f)
              /\ Contains(runs[s][1].writable, f) <=> Contains(Starting(s).writable, f)

\* C4, for starting lists that hold no name twice (not the claim: the case
\* the claim fails on is the one left out)
C4_WithoutRepeats ==
    \A s \in Settings :
        ( /\ Resolved(s)
          /\ Accepted(given[s])
          /\ NoDuplicates(Starting(s).readable)
          /\ NoDuplicates(Starting(s).writable) ) =>
            /\ \A f \in DOMAIN OverridesOf(s) :
                  /\ Contains(runs[s][1].readable, f) <=> (f \in ShownR(OverridesOf(s)))
                  /\ Contains(runs[s][1].writable, f) <=> (f \in ShownW(OverridesOf(s)))

\* the steps of the definition in the order claimed
ClaimedOrder ==
    << "define_validation", "define_defaults", "define_updates",
       "define_representation", "define_computations", "define_callbacks",
       "define_scopes", "define_indexes" >>

Structural == Range(ClaimedOrder)

\* C5: _define_ runs the validation, default, update, representation,
\* computation, callback, scope and index setup in this order, then the
\* hiding step, then the resolver for both settings, then setup(), each
\* once: hiding comes after all structural steps and before either resolver
\* pass, which reads the flags hiding left, and setup() comes after both
\* passes have written auth.settings.
C5_StepOrder ==
    /\ NoDuplicates(trace)
    /\ \A i \in DOMAIN trace :
          /\ trace[i] \in Structural => i <= Len(ClaimedOrder) /\ trace[i] = ClaimedOrder[i]
          /\ trace[i] = "hide_all" => Before(i) = Structural
          /\ trace[i] \in Settings =>
                /\ "hide_all" \in Before(i)
                /\ Structural \subseteq Before(i)
                /\ writable = HiddenFlags /\ readable = HiddenFlags
          /\ trace[i] = "setup" =>
                /\ Before(i) = Structural \cup {"hide_all"} \cup Settings
                /\ \A s \in Settings : Resolved(s) /\ settings[s] = runs[s][1]
    /\ Defined => Range(trace) = Structural \cup {"hide_all", "setup"} \cup Settings

\* C5 witness: _define_ has completed; hide_all was its ninth step and
\* setup its last, after both resolver passes.
C5_Witness ==
    /\ Defined
    /\ Len(trace) = 12
    /\ trace[9] = "hide_all"
    /\ trace[12] = "setup"
    /\ { trace[10], trace[11] } = Settings


\* C6: once the definition has completed, whatever accepted shape the
\* settings had and whatever the overrides are, auth.settings holds for
\* register_fields and for profile_fields a structure with a readable and a
\* writable entry, each a list of field names holding no name twice.
C6_Normalized ==
    (Defined /\ \A s \in Settings : Accepted(given[s])) =>
        \A s \in Settings :
            /\ settings[s].kind = "dict"
            /\ DOMAIN settings[s] = { "kind", "readable", "writable" }
            /\ NoDuplicates(settings[s].readable)
            /\ NoDuplicates(settings[s].writable)
            /\ Range(settings[s].readable) \subseteq Range(TableFields)
            /\ Range(settings[s].writable) \subseteq Range(TableFields)

\* C6 witness: the definition has completed from a flat register_fields
\* setting naming bio twice, with an override adding bio once more.
C6_Witness ==
    /\ Defined
    /\ given["register_fields"] = [kind |-> "list", items |-> << "bio", "bio" >>]
    /\ OverridesOf("register_fields") = BioTrue
    /\ settings["register_fields"].readable = << "bio" >>

\* C7 (as claimed): a second pass of the resolver on the value the first
\* pass wrote, with the same fields and overrides, writes the same readable
\* and writable sets.
C7_Idempotent ==
    \A s \in Settings : (Len(runs[s]) >= 2 /\ Accepted(given[s])) =>
        /\ Range(runs[s][2].readable) = Range(runs[s][1].readable)
        /\ Range(runs[s][2].writable) = Range(runs[s][1].writable)

\* C7, for starting lists that hold no name twice (not the claim)
C7_WithoutRepeats ==
    \A s \in Settings :
        ( /\ Len(runs[s]) >= 2
          /\ Accepted(given[s])
          /\ NoDuplicates(Starting(s).readable)
          /\ NoDuplicates(Starting(s).writable) ) =>
            /\ Range(runs[s][2].readable) = Range(runs[s][1].readable)
            /\ Range(runs[s][2].writable) = Range(runs[s][1].writable)


\* the account state a registration_key stands for
AccountState(key) ==
    CASE key = "" -> "active"
      [] key = "disabled" -> "disabled"
      [] key = "blocked" -> "blocked"
      [] OTHER -> "pending_verification"

AccountStates == { "active", "pending_verification", "disabled", "blocked" }

\* the key each operation is claimed to assign
ClaimedKey(op) ==
    CASE op = "disable" -> "disabled"
      [] op = "block" -> "blocked"
      [] op = "allow" -> ""

Rows == { id \in Ids : users[id] # NoRow }

\* C8: disable, block and allow are unconditional assignments, callable in
\* every account state: whatever was applied to a row before, its
\* registration_key is the value of the last of them applied ('disabled',
\* 'blocked', ''), and applying the same operation again leaves it as it is.
C8_LastWriteWins ==
    \A id \in Rows :
        /\ log[id].op \in { "disable", "block", "allow" } =>
              /\ users[id].registration_key = ClaimedKey(log[id].op)
              /\ \A t \in Threads :
                    UpdatedRow(users[id], log[id].fields, Now(t)).registration_key
                        = users[id].registration_key
        /\ \A t \in Threads :
              /\ ENABLED SetDisabled(t, id)
              /\ ENABLED SetBlocked(t, id)
              /\ ENABLED SetAllowed(t, id)
              /\ UpdatedRow(users[id], SetDisabledChanges, Now(t)).registration_key
                    = "disabled"
              /\ UpdatedRow(users[id], SetBlockedChanges, Now(t)).registration_key
                    = "blocked"
              /\ UpdatedRow(users[id], SetAllowedChanges, Now(t)).registration_key
                    = ""

\* C8 witness: a row inserted pending verification was since allowed, and
\* another one blocked; a token was issued for each.
C8_Witness ==
    /\ Rows = Ids
    /\ uuids = 2
    /\ log[1].op = "allow" /\ users[1].registration_key = ""
    /\ log[2].op = "block" /\ users[2].registration_key = "blocked"

\* C9: an insert with verification required and no registration token
\* supplied (no key, or the empty one) stores a newly generated non-empty
\* token, so the row starts pending verification, not active; in every
\* other case the row holds the key exactly as supplied (the default ''
\* when none was).
C9_InsertHook ==
    \A id \in Rows : log[id].op = "insert" =>
        LET fields == log[id].fields
            key == users[id].registration_key
            supplied == "registration_key" \in DOMAIN fields
        IN  IF requires_verification /\ (~supplied \/ fields["registration_key"] = "")
            THEN /\ key # ""
                 /\ AccountState(key) = "pending_verification"
                 /\ key \notin { f["registration_key"] : f \in InsertFields \ {NoFields} }
                 /\ \A other \in Rows \ {id} : users[other].registration_key # key
            ELSE key = IF supplied THEN fields["registration_key"] ELSE ""

\* C9 witness: verification is required; the first row was inserted with a
\* token of its own and kept it, the second with none and got a new one.
C9_Witness ==
    /\ requires_verification
    /\ Rows = Ids
    /\ log[1].op = "insert" /\ log[1].fields = [registration_key |-> "invite"]
    /\ users[1].registration_key = "invite"
    /\ log[2].op = "insert" /\ log[2].fields = NoFields
    /\ AccountState(users[2].registration_key) = "pending_verification"

\* C10: along an insert followed by updates of a row (disable, block and
\* allow among them), created_at is set at the insert and keeps that value;
\* updated_at is set at the insert and takes the value of _now() at each
\* update, so it does not decrease whenever the values of _now() do not
\* (and stays equal when they are equal).
C10_Timestamps ==
    [][ \A id \in Ids :
          /\ (users[id] = NoRow /\ users'[id] # NoRow) =>
                /\ users'[id].created_at \in 0..wall'
                /\ users'[id].updated_at = log'[id].now
          /\ users[id] # NoRow =>
                /\ users'[id] # NoRow
                /\ users'[id].created_at = users[id].created_at
                /\ users'[id].updated_at = log'[id].now
                /\ log'[id].now >= log[id].now =>
                      users'[id].updated_at >= users[id].updated_at
                /\ log'[id].now = log[id].now =>
                      users'[id].updated_at = users[id].updated_at
    ]_vars

\* C10 witness: a row created at 0 was last updated by block() at 1.
C10_Witness ==
    /\ users[1] # NoRow
    /\ users[1].created_at = 0
    /\ log[1].op = "block"
    /\ users[1].updated_at = 1


\* the pass of the resolver on s was attempted
Attempted(s) == s \in Range(trace)

\* C11 (as claimed): when the setting of a form has no accepted shape,
\* _define_ fails with an error: it does not complete, does not reach
\* setup(), and the pass on that setting stores no value for it.
C11_MalformedFails ==
    \A s \in Settings : ~Accepted(given[s]) =>
        /\ ~Defined
        /\ "setup" \notin Range(trace)
        /\ Attempted(s) => (err # "" /\ settings[s] = given[s])

\* C11, for a setting that is a number (not the claim: list(5) raises, the
\* string and the dict without the two keys do not)
C11_NumberFails ==
    \A s \in Settings : given[s].kind = "number" =>
        /\ ~Defined
        /\ "setup" \notin Range(trace)
        /\ Attempted(s) => (err = "TypeError" /\ settings[s] = given[s])

\* the shapes of an override value that are supported
SupportedValue(value) == value.kind \in { "bool", "pair" }

\* C12 (as claimed): when an override value is neither a boolean nor a
\* (readable, writable) pair, _define_ raises and does not complete, and no
\* pass using that value completes.
C12_UnsupportedFails ==
    \A s \in Settings :
        (\E f \in DOMAIN OverridesOf(s) : ~SupportedValue(OverridesOf(s)[f])) =>
            /\ ~Defined
            /\ ~Resolved(s)
            /\ Attempted(s) => err # ""

\* C12, for a tuple of three elements (not the claim: the unpacking raises
\* for it, while any object that is no tuple or list is used for its truth)
C12_TripleFails ==
    \A s \in Settings :
        (\E f \in DOMAIN OverridesOf(s) : OverridesOf(s)[f].kind = "triple") =>
            /\ ~Defined
            /\ ~Resolved(s)
            /\ Attempted(s) => err # ""


\* the overrides of s cut down to the entry of field f, if there is one
OwnEntry(s, f) ==
    [g \in DOMAIN OverridesOf(s) \cap {f} |-> OverridesOf(s)[g]]

\* the pass on s as it would run with the overrides visited in order o
PassInOrder(s, o) == Resolve(s, given[s], OverridesOf(s), o, writable)

\* the pass on s as it would run with the entry of f as the only override
PassOwnEntry(s, f) ==
    Resolve(s, given[s], OwnEntry(s, f),
            IF f \in DOMAIN OverridesOf(s) THEN << f >> ELSE << >>, writable)

\* C14: for every starting value and every override mapping whose pass
\* completes, visiting the override entries in any order gives the same
\* readable and the same writable set as the pass that ran, and a field is
\* in a final set exactly when it is there after a pass applying only the
\* field's own entry (or none, if it has none) to the same starting value:
\* no entry of another field decides it.
C14_OrderIndependent ==
    \A s \in Settings : (Resolved(s) /\ given[s].kind # "otherdict") =>
        LET ran == runs[s][1]
            alone == PassOwnEntry(s, "")    \* "" names no field: no entry
        IN  /\ \A o \in Orders(DOMAIN OverridesOf(s)) :
                  LET pass == PassInOrder(s, o)
                  IN  /\ pass.error = ""
                      /\ Range(pass.rwdata.readable) = Range(ran.readable)
                      /\ Range(pass.rwdata.writable) = Range(ran.writable)
            /\ \A f \in DOMAIN OverridesOf(s) :
                  LET own == PassOwnEntry(s, f)
                  IN  /\ Contains(ran.readable, f)
                            <=> Contains(own.rwdata.readable, f)
                      /\ Contains(ran.writable, f)
                            <=> Contains(own.rwdata.writable, f)
            /\ Range(ran.readable) \ DOMAIN OverridesOf(s)
                  = Range(alone.rwdata.readable) \ DOMAIN OverridesOf(s)
            /\ Range(ran.writable) \ DOMAIN OverridesOf(s)
                  = Range(alone.rwdata.writable) \ DOMAIN OverridesOf(s)

\* C14 witness: a pass completed on a flat setting [email, bio] with two
\* falsy override entries, on email and on bio, which can be visited in two
\* orders; both fields are gone from both sets.
C14_Witness ==
    \E s \in Settings :
        /\ Resolved(s)
        /\ given[s] = [kind |-> "list", items |-> << "email", "bio" >>]
        /\ DOMAIN OverridesOf(s) = { "email", "bio" }
        /\ ShownR(OverridesOf(s)) = {} /\ ShownW(OverridesOf(s)) = {}
        /\ Cardinality(Orders(DOMAIN OverridesOf(s))) = 2
        /\ runs[s][1].readable = << >>
        /\ runs[s][1].writable = << >>


\* the values a pass on s can write, computed from the given value of s, the
\* overrides of the form of s and the flags the hiding step left, alone
OwnResults(s) ==
    { Resolve(s, given[s], OverridesOf(s), o, HiddenFlags).rwdata :
          o \in Orders(DOMAIN OverridesOf(s)) }

\* C15: the two passes of the resolver are independent.  Whichever of
\* register_fields and profile_fields is resolved first, the value written
\* for a setting is the one computed from that setting's own given value,
\* its own form's overrides and the flags left by the hiding step; a setting
\* whose pass has not run still holds its given value, one whose pass has
\* run holds its result whatever ran afterwards; and no pass changes a
\* readable or writable flag of a field.
C15_Independent ==
    /\ \A s \in Settings :
          IF Resolved(s)
          THEN /\ runs[s][1] \in OwnResults(s)
               /\ settings[s] = runs[s][1]
          ELSE settings[s] = given[s]
    /\ (\E s \in Settings : Resolved(s)) =>
          /\ readable = HiddenFlags
          /\ writable = HiddenFlags

\* C15 witness: the definition has completed with profile_fields resolved
\* before register_fields, from different given values and different
\* overrides, and the two settings hold different results.
C15_Witness ==
    /\ Defined
    /\ trace[10] = "profile_fields"
    /\ trace[11] = "register_fields"
    /\ given["profile_fields"] = [kind |-> "list", items |-> << "bio" >>]
    /\ given["register_fields"] = None
    /\ OverridesOf("profile_fields") # OverridesOf("register_fields")
    /\ OverridesOf("register_fields") # NoOverrides
    /\ settings["profile_fields"] # settings["register_fields"]
    /\ settings["profile_fields"].readable = << "bio" >>


\* C13: every operation on a row stamps what _now() gives the thread that
\* runs it: inside a request the now value of that thread's own request,
\* however far the wall clock has moved and whatever request another thread
\* is serving, so an insert inside a request stores created_at equal to
\* updated_at; outside a request the wall clock as read at each call, a
\* value and never an error.  _now() changes no request context.
C13_ContextClock ==
    [][ \A id \in Ids : log'[id] # log[id] =>
          /\ log'[id].thread \in Threads
          /\ requests' = requests
          /\ IF requests[log'[id].thread] # NoRequest
             THEN /\ users'[id].updated_at = requests[log'[id].thread]
                  /\ log'[id].op = "insert" =>
                        /\ users'[id].created_at = requests[log'[id].thread]
                        /\ users'[id].created_at = users'[id].updated_at
             ELSE /\ users'[id].updated_at = wall'
                  /\ users'[id].updated_at \in 0..MaxClock
                  /\ log'[id].op = "insert" => users'[id].created_at = wall
    ]_vars

\* C13 witness: two requests in flight with different now values, 0 for t1
\* and 1 for t2, the wall clock at 1; row 2 was inserted by t2 and carries 1
\* in both timestamps, row 1 was last updated by t1 and carries 0.
C13_Witness ==
    /\ requests = [t \in Threads |-> IF t = "t1" THEN 0 ELSE 1]
    /\ wall = 1
    /\ log[2].op = "insert" /\ log[2].thread = "t2"
    /\ users[2].created_at = 1 /\ users[2].updated_at = 1
    /\ log[1].op = "disable" /\ log[1].thread = "t1"
    /\ users[1].updated_at = 0


\* the rowmethods that assign registration_key
KeyOps == { "disable", "block", "allow" }

\* the account states a key is in, each told by its own test
StatesOf(key) ==
    { st \in AccountStates :
        \/ st = "active" /\ key = ""
        \/ st = "disabled" /\ key = "disabled"
        \/ st = "blocked" /\ key = "blocked"
        \/ st = "pending_verification"
              /\ key \notin { "", "disabled", "blocked" } }

\* C16: after every step each row is in exactly one of the four account
\* states; a row that exists does not enter pending_verification (it is
\* there only if it was there before the step, so only an insert puts a row
\* there); and a step of disable, block or allow leaves the row outside
\* pending_verification, so no sequence of them brings it back.
C16_PendingOnlyAtInsert ==
    [][ \A id \in Ids : users'[id] # NoRow =>
          /\ Cardinality(StatesOf(users'[id].registration_key)) = 1
          /\ ( /\ users[id] # NoRow
               /\ StatesOf(users'[id].registration_key) = {"pending_verification"} )
             => StatesOf(users[id].registration_key) = {"pending_verification"}
          /\ (log'[id] # log[id] /\ log'[id].op \in KeyOps) =>
                "pending_verification" \notin StatesOf(users'[id].registration_key)
    ]_vars

\* C16 witness: verification is required, row 1 was inserted without a key
\* and got the only token issued, so it was pending; allow() was the last
\* operation on it and it is active.
C16_Witness ==
    /\ requires_verification
    /\ Rows = {1}
    /\ uuids = 1
    /\ log[1].op = "allow"
    /\ StatesOf(users[1].registration_key) = {"active"}

\* C17: with two threads issuing disable, block and allow in every
\* interleaving, each update_record being one atomic step: a step of one of
\* them on a row leaves in the row's registration_key the value of that
\* operation, 'disabled', 'blocked' or '', whatever the other thread wrote
\* before, so the key is that of the operation committed last; and the step
\* changes nothing of any other row.
C17_Concurrent ==
    [][ \A id \in Ids : log'[id] # log[id] =>
          /\ \A other \in Ids \ {id} :
                users'[other] = users[other] /\ log'[other] = log[other]
          /\ log'[id].op \in KeyOps =>
                /\ users'[id].registration_key = ClaimedKey(log'[id].op)
                /\ users'[id].registration_key \in { "disabled", "blocked", "" }
    ]_vars

\* C17 witness: verification is required and both rows were inserted
\* pending; t1 disabled row 1 and, after it, t2 allowed row 2 at a later
\* time: row 2 is active and row 1 still disabled.
C17_Witness ==
    /\ requires_verification
    /\ uuids = 2
    /\ log[1].op = "disable" /\ log[1].thread = "t1"
    /\ log[2].op = "allow" /\ log[2].thread = "t2"
    /\ log[2].now > log[1].now
    /\ users[1].registration_key = "disabled"
    /\ users[2].registration_key = ""

=============================================================================
